---- MODULE Spec2Model ----
(***************************************************************************)
(* A model of the wordpieces crate: the vocabulary builder, the FST-backed *)
(* word piece maps, the lazy splitting iterator (src/word_pieces.rs) and   *)
(* the older eager splitter with its prefix automaton (src/lib.rs,         *)
(* src/automaton.rs).                                                      *)
(*                                                                         *)
(* Strings are sequences of bytes (naturals below 256), always the UTF-8   *)
(* encoding of a sequence of code points, as Rust's str and String are.    *)
(***************************************************************************)
EXTENDS Naturals, Sequences, FiniteSets

(***************************************************************************)
(* Bounds of the model.                                                    *)
(***************************************************************************)
\* The longest word handed to split, in bytes.
MaxWordBytes == 4
\* The number of lines of a vocabulary file read by from_buf_read.
MaxLines == 3
\* The number of insert calls made on one builder.
MaxInserts == 3
\* The largest index handed to insert.
MaxIdx == 2

(***************************************************************************)
(* Bytes and strings.                                                      *)
(***************************************************************************)
\* "##", the continuation marker.
Marker == <<35, 35>>

\* The code points words are made of: "a", and the two-byte code points
\* U+00E4 and U+00EB, whose encodings share their first byte.
CodePoints == {<<97>>, <<195, 164>>, <<195, 171>>}

RECURSIVE StrsUpTo(_)
\* Every string over CodePoints of at most n bytes.
StrsUpTo(n) ==
    IF n = 0 THEN {<<>>}
    ELSE LET shorter == StrsUpTo(n - 1)
         IN  shorter \cup {x \in {w \o c : w \in shorter, c \in CodePoints} : Len(x) <= n}

\* The words handed to split (the empty word included).
Words == StrsUpTo(MaxWordBytes)

\* The lines a vocabulary file may hold: "a", "aa", "ä", "aä", "##aa",
\* "##ë" and the empty line.
VocabLines ==
    { <<97>>, <<97, 97>>, <<195, 164>>, <<97, 195, 164>>,
      Marker \o <<97, 97>>, Marker \o <<195, 171>>, <<>> }

\* The contents of a vocabulary file: at most MaxLines lines.
LineSeqs == UNION {[1..n -> VocabLines] : n \in 0..MaxLines}

IsPrefix(p, s) == Len(p) <= Len(s) /\ SubSeq(s, 1, Len(p)) = p

\* s[from..] for a 0-based byte offset.
DropBytes(s, from) == SubSeq(s, from + 1, Len(s))

\* s[..to] for a 0-based byte offset.
TakeBytes(s, to) == SubSeq(s, 1, to)

Min(S) == CHOOSE x \in S : \A y \in S : x <= y

\* The order of byte strings, in which a BTreeMap and an FST hold their keys.
LexLess(s, t) ==
    \/ Len(s) < Len(t) /\ IsPrefix(s, t)
    \/ \E i \in 1..Len(s) :
          /\ i <= Len(t)
          /\ TakeBytes(s, i - 1) = TakeBytes(t, i - 1)
          /\ s[i] < t[i]

LexMin(S) == CHOOSE x \in S : \A y \in S \ {x} : LexLess(x, y)

\* str::is_char_boundary: offset 0 and the length are boundaries, and
\* otherwise the byte at the offset must not be a UTF-8 continuation byte.
is_char_boundary(s, idx) ==
    IF idx = 0 \/ idx = Len(s) THEN TRUE
    ELSE IF idx > Len(s) THEN FALSE
    ELSE s[idx + 1] < 128 \/ s[idx + 1] >= 192

\* str::strip_prefix("##"): <<TRUE, rest>> when the marker leads the piece.
strip_prefix(piece) ==
    IF Len(piece) >= 2 /\ piece[1] = 35 /\ piece[2] = 35
    THEN <<TRUE, DropBytes(piece, 2)>>
    ELSE <<FALSE, piece>>

(***************************************************************************)
(* Maps from strings to indices: BTreeMap<String, u64> in the builder, and *)
(* fst::Map in the built WordPieces.                                       *)
(***************************************************************************)
EmptyMap == [k \in {} |-> 0]

\* BTreeMap::insert: a later value replaces an earlier one for the same key.
MapInsert(m, k, v) == [x \in DOMAIN m \cup {k} |-> IF x = k THEN v ELSE m[x]]

\* The FST of a map is its trie: a node is the byte string leading to it.
fst_root == <<>>

\* Node::find_input: is there a transition for this byte?
find_input(m, node, byte) ==
    \E k \in DOMAIN m : IsPrefix(Append(node, byte), k)

\* The output accumulated on the way to a node: the FST pushes the smallest
\* value below a node onto the transitions leading to it.
PathOutput(m, node) ==
    IF node = fst_root THEN 0
    ELSE Min({m[k] : k \in {x \in DOMAIN m : IsPrefix(node, x)}})

\* Transition::out of the transition of node on byte.
trans_out(m, node, byte) ==
    PathOutput(m, Append(node, byte)) - PathOutput(m, node)

\* Node::is_final
is_final(m, node) == node \in DOMAIN m

\* Node::final_output
final_output(m, node) == m[node] - PathOutput(m, node)

RECURSIVE LongestPrefixLoop(_, _, _, _, _, _, _)
\* The loop of longest_prefix_len over word[idx..], carrying node, out,
\* longest_prefix and longest_prefix_out.
LongestPrefixLoop(m, word, idx, node, out, longest_prefix, longest_prefix_out) ==
    IF idx = Len(word) THEN <<longest_prefix, longest_prefix_out>>
    ELSE LET byte == word[idx + 1] IN
         IF ~find_input(m, node, byte)
         THEN <<longest_prefix, longest_prefix_out>>
         ELSE LET out2  == out + trans_out(m, node, byte)
                  node2 == Append(node, byte)
              IN  IF is_final(m, node2)
                  THEN LongestPrefixLoop(m, word, idx + 1, node2, out2,
                                         idx + 1, final_output(m, node2) + out2)
                  ELSE LongestPrefixLoop(m, word, idx + 1, node2, out2,
                                         longest_prefix, longest_prefix_out)

\* A variant of longest_prefix_len that returns at the first final node it
\* meets: the shortest key that is a prefix of word.
first_prefix_len(piece_map, word) ==
    LET found == {k \in DOMAIN piece_map : k # <<>> /\ IsPrefix(k, word)} IN
    IF found = {} THEN <<0, 0>>
    ELSE LET k == CHOOSE x \in found : \A y \in found : Len(x) <= Len(y)
         IN  <<Len(k), piece_map[k]>>

\* WordPieces::longest_prefix_len: <<length, index>> of the longest key of
\* the map found by walking the FST over the bytes of word.
longest_prefix_len(piece_map, word) ==
    LongestPrefixLoop(piece_map, word, 0, fst_root, 0, 0, 0)

RECURSIVE MapGetLoop(_, _, _, _, _)
\* fst::Map::get: follow every byte of the key, then ask for a final node.
MapGetLoop(m, key, idx, node, out) ==
    IF idx = Len(key)
    THEN IF is_final(m, node)
         THEN <<TRUE, out + final_output(m, node)>>
         ELSE <<FALSE, 0>>
    ELSE IF ~find_input(m, node, key[idx + 1]) THEN <<FALSE, 0>>
    ELSE MapGetLoop(m, key, idx + 1, Append(node, key[idx + 1]),
                    out + trans_out(m, node, key[idx + 1]))

\* <<TRUE, idx>> for Some(idx), <<FALSE, 0>> for None.
map_get(m, key) == MapGetLoop(m, key, 0, fst_root, 0)

\* WordPieces::get_initial
get_initial(pieces, piece) == map_get(pieces.word_initial, piece)

\* WordPieces::get_continuation
get_continuation(pieces, piece) == map_get(pieces.continuation, piece)

(***************************************************************************)
(* The state.                                                              *)
(***************************************************************************)
VARIABLES
    builder,    \* the WordPiecesBuilder: its two BTreeMaps, and whether
                \* build has consumed it
    inserted,   \* for every line handed to insert, the index of the most
                \* recent call with it (history)
    ninserts,   \* the number of insert calls made (history)
    source,     \* the lines from_buf_read was given (history)
    wp,         \* the built WordPieces: its two FST maps
    iters,      \* the WordPieceIters: remaining word, initial flag, and
                \* what next has returned so far (history)
    vec,        \* the outcome of Vec::<String>::from(&WordPieces)
    sets,       \* the eager WordPieces of lib.rs: its two FST sets
    eager,      \* the outcome of the eager split
    accepted    \* the prefix lengths of a word its PrefixAutomaton accepts

vars == <<builder, inserted, ninserts, source, wp, iters, vec, sets, eager, accepted>>

NoWordPieces ==
    [built |-> FALSE, failed |-> FALSE,
     word_initial |-> EmptyMap, continuation |-> EmptyMap]

NoIter ==
    [status |-> "none", orig |-> <<>>, word |-> <<>>, initial |-> TRUE,
     out |-> <<>>, ended |-> FALSE]

Found(piece, idx) == [kind |-> "Found", piece |-> piece, idx |-> idx]

Missing == [kind |-> "Missing", piece |-> <<>>, idx |-> 0]

IterIds == {1, 2}

NoVec == [status |-> "none", pieces |-> <<>>]

NoSets == [built |-> FALSE, prefixes |-> {}, suffixes |-> {}]

NoEager == [status |-> "none", pieces |-> <<>>]

NoAccepted == [done |-> FALSE, lens |-> {}]

\* WordPiecesBuilder::new
Init ==
    /\ builder = [live |-> TRUE, word_initial |-> EmptyMap, continuation |-> EmptyMap]
    /\ inserted = EmptyMap
    /\ ninserts = 0
    /\ source = <<>>
    /\ wp = NoWordPieces
    /\ iters = [i \in IterIds |-> NoIter]
    /\ vec = NoVec
    /\ sets = NoSets
    /\ eager = NoEager
    /\ accepted = NoAccepted

(***************************************************************************)
(* The builder.                                                            *)
(***************************************************************************)
\* A variant of builder_insert that keeps the index of the first insert of
\* a text (entry().or_insert() instead of insert()).
builder_insert_first_wins(b, piece, idx) ==
    LET s == strip_prefix(piece) IN
    IF s[1]
    THEN IF s[2] \in DOMAIN b.continuation THEN b
         ELSE [b EXCEPT !.continuation = MapInsert(@, s[2], idx)]
    ELSE IF piece \in DOMAIN b.word_initial THEN b
         ELSE [b EXCEPT !.word_initial = MapInsert(@, piece, idx)]

\* WordPiecesBuilder::insert on a builder value.
builder_insert(b, piece, idx) ==
    LET s == strip_prefix(piece) IN
    IF s[1]
    THEN [b EXCEPT !.continuation = MapInsert(@, s[2], idx)]
    ELSE [b EXCEPT !.word_initial = MapInsert(@, piece, idx)]

RECURSIVE ExtendIter(_, _, _, _)
\* MapBuilder::extend_iter over a BTreeMap, which yields its keys in order:
\* the FST builder refuses a key that is not greater than the one before.
\* keys are the keys not yet yielded, fst the map built so far.
ExtendIter(m, keys, fst, last) ==
    IF keys = {} THEN [ok |-> TRUE, map |-> fst]
    ELSE LET k == LexMin(keys) IN
         IF last # <<>> /\ ~LexLess(last[1], k)
         THEN [ok |-> FALSE, map |-> EmptyMap]
         ELSE ExtendIter(m, keys \ {k}, MapInsert(fst, k, m[k]), <<k>>)

\* WordPiecesBuilder::build on a builder value: the two sorted maps become
\* the two FSTs, or the FST builder's error is returned.
builder_build(b) ==
    LET word_initial_set == ExtendIter(b.word_initial, DOMAIN b.word_initial, EmptyMap, <<>>)
        continuation_set == ExtendIter(b.continuation, DOMAIN b.continuation, EmptyMap, <<>>)
    IN  IF word_initial_set.ok /\ continuation_set.ok
        THEN [built |-> TRUE, failed |-> FALSE,
              word_initial |-> word_initial_set.map,
              continuation |-> continuation_set.map]
        ELSE [built |-> FALSE, failed |-> TRUE,
              word_initial |-> EmptyMap, continuation |-> EmptyMap]

\* builder.insert(piece, idx), for any line and any index
Insert ==
    /\ builder.live
    /\ ~wp.built
    /\ ninserts < MaxInserts
    /\ \E piece \in VocabLines, idx \in 0..MaxIdx :
          /\ builder' = builder_insert(builder, piece, idx)
          /\ inserted' = MapInsert(inserted, piece, idx)
    /\ ninserts' = ninserts + 1
    /\ UNCHANGED <<source, wp, iters, vec, sets, eager, accepted>>

\* builder.build()
Build ==
    /\ builder.live
    /\ ~wp.built
    /\ wp' = builder_build(builder)
    /\ builder' = [builder EXCEPT !.live = FALSE]
    /\ UNCHANGED <<inserted, ninserts, source, iters, vec, sets, eager, accepted>>

RECURSIVE InsertLines(_, _, _)
\* The loop of from_buf_read: insert line number idx (0-based) and go on.
InsertLines(b, lines, idx) ==
    IF idx = Len(lines) THEN b
    ELSE InsertLines(builder_insert(b, lines[idx + 1], idx), lines, idx + 1)

\* WordPieces::from_buf_read
from_buf_read(lines) ==
    builder_build(InsertLines(
        [live |-> TRUE, word_initial |-> EmptyMap, continuation |-> EmptyMap],
        lines, 0))

\* WordPieces::from_buf_read(file), for any file of the given ones
FromBufRead(files) ==
    /\ ~wp.built
    /\ ~wp.failed
    /\ ninserts = 0
    /\ \E lines \in files :
          /\ wp' = from_buf_read(lines)
          /\ source' = lines
    /\ UNCHANGED <<builder, inserted, ninserts, iters, vec, sets, eager, accepted>>

(***************************************************************************)
(* The lazy split.                                                         *)
(***************************************************************************)
\* A variant of new_iter whose initial flag is shared by all iterators of
\* the WordPieces: only the first iterator made starts as initial.
new_iter_shared_flag(word) ==
    [status |-> "live", orig |-> word, word |-> word,
     initial |-> \A i \in IterIds : iters[i].status = "none",
     out |-> <<>>, ended |-> FALSE]

\* A variant of new_iter that starts with the continuation set.
new_iter_continuation(word) ==
    [status |-> "live", orig |-> word, word |-> word, initial |-> FALSE,
     out |-> <<>>, ended |-> FALSE]

\* WordPieces::split
new_iter(word) ==
    [status |-> "live", orig |-> word, word |-> word, initial |-> TRUE,
     out |-> <<>>, ended |-> FALSE]

\* A variant of iter_empty without the assertion: None for every empty word.
iter_empty_unasserted(it) == [it EXCEPT !.ended = TRUE]

\* next on an empty word: the assertion fails on an iterator that is still
\* initial, and otherwise None is returned.
iter_empty(it) ==
    IF it.initial
    THEN [it EXCEPT !.status = "panicked"]
    ELSE [it EXCEPT !.ended = TRUE]

\* A variant of iter_missing that leaves the word as it is.
iter_missing_keeps_word(it) ==
    [it EXCEPT !.initial = FALSE, !.out = Append(@, Missing)]

\* next when no prefix was found: the word is emptied, Missing is returned.
iter_missing(it) ==
    [it EXCEPT !.initial = FALSE, !.word = <<>>, !.out = Append(@, Missing)]

\* A variant of iter_found that returns the piece and leaves the word as it
\* is.
iter_found_keeps_word(it, prefix_len, prefix_idx) ==
    [it EXCEPT !.initial = FALSE,
               !.out = Append(@, Found(TakeBytes(it.word, prefix_len), prefix_idx))]

\* A variant of iter_found that returns the piece without its last byte.
iter_found_short_piece(it, prefix_len, prefix_idx) ==
    [it EXCEPT !.initial = FALSE,
               !.word = DropBytes(it.word, prefix_len),
               !.out = Append(@, Found(TakeBytes(it.word, prefix_len - 1), prefix_idx))]

\* next when a prefix was found: the word is cut at prefix_len (slicing a
\* str inside a code point panics) and the piece is returned.
iter_found(it, prefix_len, prefix_idx) ==
    IF ~is_char_boundary(it.word, prefix_len)
    THEN [it EXCEPT !.initial = FALSE, !.status = "panicked"]
    ELSE [it EXCEPT !.initial = FALSE,
                    !.word = DropBytes(it.word, prefix_len),
                    !.out = Append(@, Found(TakeBytes(it.word, prefix_len), prefix_idx))]

\* WordPieceIter::next on an iterator value.
iter_next(pieces, it) ==
    IF it.word = <<>> THEN iter_empty(it)
    ELSE LET set == IF it.initial THEN pieces.word_initial ELSE pieces.continuation
             r   == longest_prefix_len(set, it.word)
         IN  IF r[1] = 0 THEN iter_missing(it) ELSE iter_found(it, r[1], r[2])

\* iterator i becomes wp.split(word), for any word of the given ones
Split(i, words) ==
    /\ wp.built
    /\ iters[i].status = "none"
    /\ \E word \in words : iters' = [iters EXCEPT ![i] = new_iter(word)]
    /\ UNCHANGED <<builder, inserted, ninserts, source, wp, vec, sets, eager, accepted>>

IterNext(i) ==
    /\ iters[i].status = "live"
    /\ iters' = [iters EXCEPT ![i] = iter_next(wp, iters[i])]
    /\ UNCHANGED <<builder, inserted, ninserts, source, wp, vec, sets, eager, accepted>>

(***************************************************************************)
(* The pieces by index: impl From<&WordPieces> for Vec<String>.            *)
(***************************************************************************)
RECURSIVE StoreStream(_, _, _, _)
\* One `while let Some((piece, idx)) = stream.next()` loop: keys are the
\* keys not yet streamed, v the vector so far. Indexing the vector past its
\* end panics.
StoreStream(m, keys, v, prefix) ==
    IF keys = {} \/ v.status = "panicked" THEN v
    ELSE LET piece == LexMin(keys)
             idx   == m[piece]
         IN  IF idx >= Len(v.pieces)
             THEN [status |-> "panicked", pieces |-> <<>>]
             ELSE StoreStream(m, keys \ {piece},
                              [v EXCEPT !.pieces[idx + 1] = prefix \o piece], prefix)

\* A variant of to_vec that does not put the marker back.
to_vec_unmarked(pieces) ==
    LET n     == Cardinality(DOMAIN pieces.word_initial)
                     + Cardinality(DOMAIN pieces.continuation)
        blank == [status |-> "ok", pieces |-> [i \in 1..n |-> <<>>]]
        first == StoreStream(pieces.word_initial, DOMAIN pieces.word_initial,
                             blank, <<>>)
    IN  StoreStream(pieces.continuation, DOMAIN pieces.continuation, first, <<>>)

\* Vec::<String>::from(&WordPieces)
to_vec(pieces) ==
    LET n     == Cardinality(DOMAIN pieces.word_initial)
                     + Cardinality(DOMAIN pieces.continuation)
        blank == [status |-> "ok", pieces |-> [i \in 1..n |-> <<>>]]
        first == StoreStream(pieces.word_initial, DOMAIN pieces.word_initial,
                             blank, <<>>)
    IN  StoreStream(pieces.continuation, DOMAIN pieces.continuation, first, Marker)

ToVec ==
    /\ wp.built
    /\ vec.status = "none"
    /\ vec' = to_vec(wp)
    /\ UNCHANGED <<builder, inserted, ninserts, source, wp, iters, sets, eager, accepted>>

(***************************************************************************)
(* The prefix automaton (src/automaton.rs).                                *)
(***************************************************************************)
Sink == [sink |-> TRUE, idx |-> 0]

State(idx) == [sink |-> FALSE, idx |-> idx]

\* Automaton::start
start == State(0)

\* Automaton::can_match
can_match(state) == ~state.sink

\* A variant of is_match that matches in every state but the sink.
is_match_any_state(s, state) == ~state.sink

\* Automaton::is_match of the automaton of string s
is_match(s, state) ==
    IF state.sink THEN FALSE ELSE is_char_boundary(s, state.idx)

\* Automaton::accept of the automaton of string s
accept(s, state, byte) ==
    IF state.sink THEN Sink
    ELSE IF state.idx = Len(s) THEN Sink
    ELSE IF s[state.idx + 1] = byte THEN State(state.idx + 1)
    ELSE Sink

RECURSIVE AutomatonRun(_, _, _, _)
\* The state after feeding data[i+1..] to the automaton of s.
AutomatonRun(s, state, data, i) ==
    IF i = Len(data) THEN state
    ELSE AutomatonRun(s, accept(s, state, data[i + 1]), data, i + 1)

\* tests::automaton_match
automaton_match(s, data) == is_match(s, AutomatonRun(s, start, data, 0))

\* tests::do_not_match_incomplete_prefix_test, for the word of the split:
\* which of its byte prefixes does its automaton match?
AutomatonPrefixes ==
    /\ eager.status # "none"
    /\ ~accepted.done
    /\ accepted' =
          [done |-> TRUE,
           lens |-> {n \in 0..Len(iters[1].orig) :
                        automaton_match(iters[1].orig, TakeBytes(iters[1].orig, n))}]
    /\ UNCHANGED <<builder, inserted, ninserts, source, wp, iters, vec, sets, eager>>

(***************************************************************************)
(* The eager split (src/lib.rs).                                           *)
(***************************************************************************)
RECURSIVE TryFromLoop(_, _, _, _)
\* The loop of try_from over lines[i+1..].
TryFromLoop(lines, i, prefixes, suffixes) ==
    IF i = Len(lines) THEN [built |-> TRUE, prefixes |-> prefixes, suffixes |-> suffixes]
    ELSE LET line == lines[i + 1] IN
         IF IsPrefix(Marker, line)
         THEN TryFromLoop(lines, i + 1, prefixes, suffixes \cup {DropBytes(line, 2)})
         ELSE TryFromLoop(lines, i + 1, prefixes \cup {line}, suffixes)

\* impl TryFrom<Lines<R>> for WordPieces
try_from(lines) == TryFromLoop(lines, 0, {}, {})

\* Set::search(PrefixAutomaton::from(word)): the keys the automaton matches.
search(affix_set, word) == {k \in affix_set : automaton_match(word, k)}

RECURSIVE StreamLongest(_, _)
\* The `while let Some(prefix) = stream.next()` loop of longest_prefix_len.
StreamLongest(keys, longest_len) ==
    IF keys = {} THEN longest_len
    ELSE LET prefix == LexMin(keys) IN
         StreamLongest(keys \ {prefix},
                       IF Len(prefix) > longest_len THEN Len(prefix) ELSE longest_len)

\* A variant of set_longest_prefix_len without the loop over the rest of the
\* stream: the length of the first key streamed.
set_first_prefix_len(affix_set, word) ==
    LET stream == search(affix_set, word) IN
    IF stream = {} THEN 0 ELSE Len(LexMin(stream))

\* WordPieces::longest_prefix_len of lib.rs
set_longest_prefix_len(affix_set, word) ==
    LET stream == search(affix_set, word) IN
    IF stream = {} THEN 0
    ELSE LET first == LexMin(stream) IN StreamLongest(stream \ {first}, Len(first))

RECURSIVE SuffixLoop(_, _, _)
\* The `while !word.is_empty()` loop of the eager split.
SuffixLoop(ws, word, pieces) ==
    IF word = <<>> THEN [status |-> "Ok", pieces |-> pieces]
    ELSE LET prefix_len == set_longest_prefix_len(ws.suffixes, word) IN
         IF prefix_len = 0 THEN [status |-> "Err", pieces |-> pieces]
         ELSE SuffixLoop(ws, DropBytes(word, prefix_len),
                         Append(pieces, Marker \o TakeBytes(word, prefix_len)))

\* WordPieces::split of lib.rs
eager_split(ws, word) ==
    LET prefix_len == set_longest_prefix_len(ws.prefixes, word) IN
    IF prefix_len = 0 THEN [status |-> "Err", pieces |-> <<>>]
    ELSE SuffixLoop(ws, DropBytes(word, prefix_len), <<TakeBytes(word, prefix_len)>>)

\* The eager WordPieces is read from the lines the lazy one was read from,
\* once the lazy split has been consumed.
TryFromLines ==
    /\ wp.built
    /\ ~sets.built
    /\ iters[1].status = "panicked" \/ iters[1].ended
    /\ sets' = try_from(source)
    /\ UNCHANGED <<builder, inserted, ninserts, source, wp, iters, vec, eager, accepted>>

\* The eager split of the word the lazy split was given.
EagerSplit ==
    /\ sets.built
    /\ eager.status = "none"
    /\ eager' = eager_split(sets, iters[1].orig)
    /\ UNCHANGED <<builder, inserted, ninserts, source, wp, iters, vec, sets, accepted>>

(***************************************************************************)
(* Specifications.                                                         *)
(***************************************************************************)
\* One vocabulary, read from a file or inserted piece by piece into a
\* builder, and one lazy split of one word.
Next ==
    \/ FromBufRead(LineSeqs)
    \/ Insert
    \/ Build
    \/ Split(1, Words)
    \/ IterNext(1)

Spec == Init /\ [][Next]_vars

\* One vocabulary, read from a file or inserted piece by piece into a
\* builder, and the list of its pieces by index.
NextBuild ==
    \/ FromBufRead(LineSeqs)
    \/ Insert
    \/ Build
    \/ ToVec

SpecBuild == Init /\ [][NextBuild]_vars

\* One vocabulary read from a file into both the lazy and the eager
\* WordPieces, and both splits of one word.
NextEager ==
    \/ FromBufRead(LineSeqs)
    \/ TryFromLines
    \/ Split(1, Words)
    \/ IterNext(1)
    \/ EagerSplit
    \/ AutomatonPrefixes

SpecEager == Init /\ [][NextEager]_vars

\* One vocabulary read from a file, and two lazy splits whose steps
\* interleave. Two iterators square the number of iterator states, so the
\* file is one line shorter and the words one byte shorter than above.
TwoLineSeqs == {lines \in LineSeqs : Len(lines) < MaxLines}

TwoWords == {word \in Words : Len(word) < MaxWordBytes}

NextTwo ==
    \/ FromBufRead(TwoLineSeqs)
    \/ \E i \in IterIds : Split(i, TwoWords)
    \/ \E i \in IterIds : IterNext(i)

SpecTwo == Init /\ [][NextTwo]_vars

\* One vocabulary read from a file and one lazy split of one word, with a
\* caller that goes on calling next while a call still changes the
\* iterator, as collect() and for loops do. The file is one line shorter
\* than above, which keeps the behaviour graph small.
NextFair ==
    \/ FromBufRead(TwoLineSeqs)
    \/ Split(1, Words)
    \/ IterNext(1)

SpecFair == Init /\ [][NextFair]_vars /\ WF_vars(IterNext(1))

(***************************************************************************)
(* What the claims speak of, stated without the code's operators.          *)
(***************************************************************************)
RECURSIVE FoundBytes(_, _)
\* The number of bytes of the first n results of a split.
FoundBytes(out, n) ==
    IF n = 0 THEN 0 ELSE FoundBytes(out, n - 1) + Len(out[n].piece)

\* The text that remained when result number j of the split was computed.
RemainingAt(it, j) == DropBytes(it.orig, FoundBytes(it.out, j - 1))

\* The class result number j is looked up in.
ClassAt(j) == IF j = 1 THEN wp.word_initial ELSE wp.continuation

\* The pieces of a class that are non-empty prefixes of a text.
PrefixPieces(class, text) ==
    {k \in DOMAIN class : k # <<>> /\ IsPrefix(k, text)}

IsLongestPiece(piece, class, text) ==
    /\ piece \in PrefixPieces(class, text)
    /\ \A k \in PrefixPieces(class, text) : Len(k) <= Len(piece)

(***************************************************************************)
(* C1: every Found result of split carries the longest piece of the        *)
(* expected class (the initial class at the first step, the continuation   *)
(* class at every later step) that is a non-empty prefix of the text       *)
(* remaining at that step, and the index stored for exactly that piece.    *)
(***************************************************************************)
C1_FoundIsLongestPiece ==
    \A j \in 1..Len(iters[1].out) :
        iters[1].out[j].kind = "Found" =>
            /\ IsLongestPiece(iters[1].out[j].piece, ClassAt(j), RemainingAt(iters[1], j))
            /\ iters[1].out[j].idx = ClassAt(j)[iters[1].out[j].piece]

\* A first piece after which the byte walk went on along a longer piece and
\* met a missing transition, followed by a piece that is a continuation
\* piece only.
C1_Witness ==
    /\ Len(iters[1].out) = 2
    /\ iters[1].out[1].kind = "Found"
    /\ iters[1].out[2].kind = "Found"
    /\ \E k \in DOMAIN wp.word_initial :
          /\ ~IsPrefix(k, iters[1].orig)
          /\ IsPrefix(TakeBytes(iters[1].orig, Len(iters[1].out[1].piece) + 1), k)
    /\ iters[1].out[2].piece \notin DOMAIN wp.word_initial

(***************************************************************************)
(* C2: the results of split are Found results followed by at most one      *)
(* Missing, which is the last result; a result is Missing exactly when no  *)
(* piece of the expected class is a non-empty prefix of the remaining      *)
(* text; after Missing nothing of the word remains; the Found results      *)
(* before it are the greedy (longest) choices, never shorter ones.         *)
(***************************************************************************)
C2_MissingIsLastAndExact ==
    \A j \in 1..Len(iters[1].out) :
        /\ iters[1].out[j].kind \in {"Found", "Missing"}
        /\ iters[1].out[j].kind = "Missing"
              <=> PrefixPieces(ClassAt(j), RemainingAt(iters[1], j)) = {}
        /\ iters[1].out[j].kind = "Missing" =>
              /\ j = Len(iters[1].out)
              /\ iters[1].word = <<>>
        /\ j < Len(iters[1].out) =>
              /\ iters[1].out[j].kind = "Found"
              /\ IsLongestPiece(iters[1].out[j].piece, ClassAt(j),
                                RemainingAt(iters[1], j))

RECURSIVE Coverable(_, _)
\* Can text be cut into pieces, the first of the initial class when first
\* holds and all others of the continuation class?
Coverable(text, first) ==
    \/ text = <<>> /\ ~first
    \/ \E k \in PrefixPieces(IF first THEN wp.word_initial ELSE wp.continuation, text) :
          Coverable(DropBytes(text, Len(k)), FALSE)

\* A split that ended in Missing after a Found piece, consumed to its end,
\* of a word that a shorter first piece would have covered.
C2_Witness ==
    /\ iters[1].ended
    /\ Len(iters[1].out) = 2
    /\ iters[1].out[1].kind = "Found"
    /\ iters[1].out[2].kind = "Missing"
    /\ Coverable(iters[1].orig, TRUE)

(***************************************************************************)
(* C3: for every piece of the initial set, split(piece) yields exactly one *)
(* Found result with the piece's text and stored index, and nothing else.  *)
(* As stated it fails for the empty piece (an empty line of the            *)
(* vocabulary), which split refuses; it holds of every non-empty piece.    *)
(***************************************************************************)
\* The split of a piece of the initial set is, at every moment, either not
\* begun or the one Found result of the whole piece.
SplitOfPieceIsOneFound(it) ==
    /\ it.status = "live"
    /\ \/ it.out = <<>> /\ it.word = it.orig /\ it.initial /\ ~it.ended
       \/ /\ it.out = <<Found(it.orig, wp.word_initial[it.orig])>>
          /\ it.word = <<>>

C3_Original ==
    (iters[1].status # "none" /\ iters[1].orig \in DOMAIN wp.word_initial)
        => SplitOfPieceIsOneFound(iters[1])

C3_NonEmptyPieceIsOneFound ==
    (/\ iters[1].status # "none"
     /\ iters[1].orig \in DOMAIN wp.word_initial
     /\ iters[1].orig # <<>>)
        => SplitOfPieceIsOneFound(iters[1])

\* The consumed split of an initial piece that has a shorter initial piece
\* as a prefix.
C3_Witness ==
    /\ iters[1].ended
    /\ iters[1].orig \in DOMAIN wp.word_initial
    /\ \E k \in DOMAIN wp.word_initial :
          k # <<>> /\ k # iters[1].orig /\ IsPrefix(k, iters[1].orig)
    /\ Len(iters[1].out) = 1

(***************************************************************************)
(* C5: split("") panics at its first step: it never yields a result and    *)
(* never ends normally; an iterator of a non-empty word never panics, also *)
(* when its word has become empty, and then ends normally.                 *)
(***************************************************************************)
C5_EmptyWordPanics ==
    /\ (iters[1].status # "none" /\ iters[1].orig = <<>>) =>
          /\ iters[1].out = <<>>
          /\ ~iters[1].ended
          /\ iters[1].status = "panicked" \/ iters[1].initial
    /\ iters[1].status = "panicked" =>
          iters[1].orig = <<>> /\ iters[1].initial
    /\ iters[1].ended =>
          /\ iters[1].status = "live"
          /\ iters[1].orig # <<>>
          /\ iters[1].word = <<>>
          /\ iters[1].out # <<>>

\* The split of the empty word has panicked.
C5_Witness ==
    /\ iters[1].status = "panicked"
    /\ iters[1].orig = <<>>
    /\ iters[1].out = <<>>

(***************************************************************************)
(* C4: for a vocabulary read from a file of lines, the pieces by index are *)
(* the lines of the file, in order, the marker put back. As stated it      *)
(* fails for a file that holds a line twice: the later line replaces the   *)
(* earlier one, and the conversion panics for want of a slot. It holds of  *)
(* every file whose lines are pairwise distinct.                           *)
(***************************************************************************)
\* The WordPieces was read from a file (and not built by the builder).
FromFile == wp.built /\ builder.live

DistinctLines(lines) ==
    \A i, j \in 1..Len(lines) : lines[i] = lines[j] => i = j

C4_Original ==
    (FromFile /\ vec.status # "none") =>
        vec.status = "ok" /\ vec.pieces = source

C4_DistinctLinesRoundTrip ==
    (FromFile /\ vec.status # "none" /\ DistinctLines(source)) =>
        vec.status = "ok" /\ vec.pieces = source

\* The round trip of a file of an initial piece after a continuation piece.
C4_Witness ==
    /\ FromFile
    /\ vec.status = "ok"
    /\ DistinctLines(source)
    /\ Len(source) >= 2
    /\ IsPrefix(Marker, source[1])
    /\ ~IsPrefix(Marker, source[2])
    /\ vec.pieces = source

(***************************************************************************)
(* C8: after any inserts, a line beginning with ## is stored only in the   *)
(* continuation collection, without its two marker bytes, and any other    *)
(* line only in the initial collection, as it is; each collection maps     *)
(* every inserted text of its class to the index of the most recent insert *)
(* of that text and holds nothing else; build succeeds; and the exact      *)
(* lookups of the built WordPieces return precisely these indices.         *)
(***************************************************************************)
\* The lines inserted so far that carry the marker.
MarkedLines == {l \in DOMAIN inserted : Len(l) >= 2 /\ SubSeq(l, 1, 2) = Marker}

PlainLines == DOMAIN inserted \ MarkedLines

\* The texts a lookup may be asked for.
LookupTexts == VocabLines \cup {DropBytes(l, 2) : l \in MarkedLines} \cup Words

\* The two collections hold what was inserted, by class.
HoldsInserted(word_initial, continuation) ==
    /\ DOMAIN word_initial = PlainLines
    /\ \A l \in PlainLines : word_initial[l] = inserted[l]
    /\ DOMAIN continuation = {DropBytes(l, 2) : l \in MarkedLines}
    /\ \A l \in MarkedLines : continuation[DropBytes(l, 2)] = inserted[l]

StoredIndices ==
    {wp.word_initial[k] : k \in DOMAIN wp.word_initial}
        \cup {wp.continuation[k] : k \in DOMAIN wp.continuation}

NumPieces ==
    Cardinality(DOMAIN wp.word_initial) + Cardinality(DOMAIN wp.continuation)

\* No two pieces share an index, and the indices are not 0..NumPieces-1.
NonContiguous ==
    /\ Cardinality(StoredIndices) = NumPieces
    /\ StoredIndices # 0..(NumPieces - 1)

C10_GapsGetPlaceholders ==
    (wp.built /\ vec.status # "none" /\ NonContiguous) =>
        /\ vec.status = "ok"
        /\ \A k \in DOMAIN wp.word_initial :
              vec.pieces[wp.word_initial[k] + 1] = k
        /\ \A k \in DOMAIN wp.continuation :
              vec.pieces[wp.continuation[k] + 1] = Marker \o k
        /\ \A i \in 1..Len(vec.pieces) :
              (i - 1) \notin StoredIndices => vec.pieces[i] = <<>>

(***************************************************************************)
(* C6: with pieces and words made of whole code points, every prefix       *)
(* length the longest-prefix lookup reports, every end of a Found piece    *)
(* and the start of the remaining text lie on a code point boundary of the *)
(* word (so cutting the word never panics), and the prefix automaton of a  *)
(* word matches exactly its byte prefixes that end on a code point         *)
(* boundary: for the bytes c3 a4 c3 ab the lengths 0, 2 and 4.             *)
(***************************************************************************)
RECURSIVE IsText(_)
\* Is s a sequence of whole code points?
IsText(s) ==
    \/ s = <<>>
    \/ \E c \in CodePoints : IsPrefix(c, s) /\ IsText(DropBytes(s, Len(c)))

\* The byte offsets of s that lie between code points.
CodePointOffsets(s) == {n \in 0..Len(s) : IsText(TakeBytes(s, n))}

C6_CodePointBoundaries ==
    /\ \A n \in 0..Len(iters[1].out) :
          FoundBytes(iters[1].out, n) \in CodePointOffsets(iters[1].orig)
    /\ (Len(iters[1].orig) - Len(iters[1].word)) \in CodePointOffsets(iters[1].orig)
    /\ iters[1].status = "panicked" => iters[1].word = <<>>
    /\ wp.built =>
          /\ longest_prefix_len(wp.word_initial, iters[1].word)[1]
                \in CodePointOffsets(iters[1].word)
          /\ longest_prefix_len(wp.continuation, iters[1].word)[1]
                \in CodePointOffsets(iters[1].word)
    /\ accepted.done =>
          /\ accepted.lens = CodePointOffsets(iters[1].orig)
          /\ iters[1].orig = <<195, 164, 195, 171>> => accepted.lens = {0, 2, 4}

\* The word c3 a4 c3 ab, split into its two code points, and the prefixes
\* of it that its automaton matches.
C6_Witness ==
    /\ iters[1].orig = <<195, 164, 195, 171>>
    /\ Len(iters[1].out) = 2
    /\ iters[1].out[1] = Found(<<195, 164>>, wp.word_initial[<<195, 164>>])
    /\ iters[1].out[2].kind = "Found"
    /\ accepted.done
    /\ accepted.lens = {0, 2, 4}

(***************************************************************************)
(* C7: two splits of the same word on the same WordPieces yield the same   *)
(* results however their steps and those of other splits interleave, and   *)
(* a step of one iterator changes neither the WordPieces nor any other     *)
(* iterator.                                                               *)
(***************************************************************************)
\* Two iterators of the same word agree as far as both have come.
SameWordSameResults(a, b) ==
    (a.status # "none" /\ b.status # "none" /\ a.orig = b.orig) =>
        /\ Len(a.out) <= Len(b.out) => a.out = SubSeq(b.out, 1, Len(a.out))
        /\ Len(a.out) = Len(b.out) => a.word = b.word /\ a.initial = b.initial
        /\ (a.ended /\ b.ended) => a.out = b.out

\* A step that changes an iterator changes nothing else.
StepsAreLocal ==
    \A i \in IterIds :
        iters'[i] # iters[i] =>
            /\ wp' = wp
            /\ \A j \in IterIds \ {i} : iters'[j] = iters[j]

C7_SplitsAreIndependent ==
    /\ [](\A i, j \in IterIds : SameWordSameResults(iters[i], iters[j]))
    /\ [][StepsAreLocal]_vars

\* Two splits of one word: the second consumed to its end with two results
\* while the first has yielded one result only.
C7_Witness ==
    /\ iters[1].orig = iters[2].orig
    /\ Len(iters[1].out) = 1
    /\ iters[1].word # <<>>
    /\ ~iters[1].ended
    /\ iters[2].ended
    /\ Len(iters[2].out) = 2

(***************************************************************************)
(* C9: for a non-empty word and one vocabulary, the eager split returns    *)
(* Ok exactly when the lazy split yields Found results only and Err        *)
(* exactly when it ends in Missing, in both cases with the texts of the    *)
(* lazy Found results, in order, ## before every text but the first.       *)
(***************************************************************************)
\* The Found results of a lazy split as the eager split writes them.
RECURSIVE MarkedTexts(_, _)
MarkedTexts(out, n) ==
    IF n = 0 THEN <<>>
    ELSE IF out[n].kind # "Found" THEN MarkedTexts(out, n - 1)
    ELSE Append(MarkedTexts(out, n - 1),
                IF n = 1 THEN out[n].piece ELSE Marker \o out[n].piece)

C9_EagerAgreesWithLazy ==
    (eager.status # "none" /\ iters[1].orig # <<>>) =>
        /\ iters[1].ended
        /\ eager.status \in {"Ok", "Err"}
        /\ eager.status = "Ok" <=>
              \A j \in 1..Len(iters[1].out) : iters[1].out[j].kind = "Found"
        /\ eager.status = "Err" <=>
              iters[1].out[Len(iters[1].out)].kind = "Missing"
        /\ eager.pieces = MarkedTexts(iters[1].out, Len(iters[1].out))

\* Both splits of a word cut into a first piece, which has a shorter
\* alternative, and a continuation piece.
C9_Witness ==
    /\ eager.status = "Ok"
    /\ Len(eager.pieces) = 2
    /\ iters[1].ended
    /\ Len(iters[1].out) = 2
    /\ \E k \in sets.prefixes :
          k # <<>> /\ IsPrefix(k, iters[1].orig) /\ Len(k) < Len(eager.pieces[1])

(***************************************************************************)
(* C11: a split of a non-empty word terminates. Every Found result has at  *)
(* least one byte, every step that yields a result strictly shrinks the    *)
(* remaining text, there are at most as many results as the word has       *)
(* bytes, the split never panics, and once nothing remains of the word     *)
(* (exhausted, or emptied by Missing) every further step yields no result  *)
(* and changes nothing but the record that None was returned; a caller     *)
(* that keeps calling next reaches that None.                              *)
(***************************************************************************)
C11_Measure ==
    iters[1].orig # <<>> =>
        /\ iters[1].status = "live"
        /\ \A j \in 1..Len(iters[1].out) :
              iters[1].out[j].kind = "Found" => Len(iters[1].out[j].piece) >= 1
        /\ Len(iters[1].out) <= Len(iters[1].orig)
        /\ iters[1].ended => iters[1].word = <<>>

C11_Step ==
    iters[1].orig # <<>> =>
        IF iters[1].word = <<>>
        THEN /\ iters'[1].out = iters[1].out
             /\ iters'[1].word = <<>>
             /\ iters'[1].status = "live"
             /\ iters'[1].ended
        ELSE iters'[1] # iters[1] =>
                /\ Len(iters'[1].out) = Len(iters[1].out) + 1
                /\ Len(iters'[1].word) < Len(iters[1].word)
                /\ iters'[1].orig = iters[1].orig

C11_SplitTerminates ==
    /\ []C11_Measure
    /\ [][C11_Step]_vars
    /\ (iters[1].orig # <<>>) ~> iters[1].ended

\* A split with as many results as its word has bytes, the last of them
\* Missing, after which next has returned None.
C11_Witness ==
    /\ iters[1].ended
    /\ Len(iters[1].orig) = 2
    /\ Len(iters[1].out) = 2
    /\ iters[1].out[2].kind = "Missing"

(***************************************************************************)
(* C12: the Found texts of a split, concatenated, followed by the text the *)
(* iterator still holds, are the original word as long as no Missing has   *)
(* been emitted; the concatenated Found texts are always a prefix of the   *)
(* word; and once nothing remains they are the whole word exactly when no  *)
(* result is Missing.                                                      *)
(***************************************************************************)
RECURSIVE FoundText(_, _)
\* The concatenation of the Found texts among the first n results.
FoundText(out, n) ==
    IF n = 0 THEN <<>>
    ELSE FoundText(out, n - 1)
            \o (IF out[n].kind = "Found" THEN out[n].piece ELSE <<>>)

HasMissing(out) == \E j \in 1..Len(out) : out[j].kind = "Missing"

C12_FoundTextsCoverWord ==
    LET text == FoundText(iters[1].out, Len(iters[1].out))
    IN  /\ ~HasMissing(iters[1].out) => text \o iters[1].word = iters[1].orig
        /\ IsPrefix(text, iters[1].orig)
        /\ iters[1].word = <<>> =>
              (text = iters[1].orig <=> ~HasMissing(iters[1].out))

\* Two Found results of three bytes together, then Missing for the fourth
\* byte of the word.
C12_Witness ==
    /\ Len(iters[1].out) = 3
    /\ iters[1].out[1].kind = "Found"
    /\ iters[1].out[2].kind = "Found"
    /\ iters[1].out[3].kind = "Missing"
    /\ Len(iters[1].orig) = 4
    /\ FoundText(iters[1].out, 3) = TakeBytes(iters[1].orig, 3)

====
